---------------------------- MODULE Spec2Model ----------------------------
(***************************************************************************)
(* Price aggregation engine of prices-roulette: the Shufersal crawler      *)
(* (src/src/crawlers/shufersal.ts), the price service with its module-wide  *)
(* cache (src/src/lib/priceService.ts) and the GET route that serves it     *)
(* (src/src/app/page.tsx, lines 448-489).                                   *)
(*                                                                          *)
(* Representation.                                                          *)
(*  - A JavaScript string that the code inspects character by character     *)
(*    (item codes, item names, search terms, tag texts) is the sequence of  *)
(*    its UTF-16 code units, e.g. "tomato" is <<116,111,109,97,116,111>>.    *)
(*    Strings the code only compares or copies (catalog ids, URLs, tag      *)
(*    names) are TLA+ strings.                                              *)
(*  - A price is an integer number of agorot (1/100 shekel): 5.90 is 590.   *)
(*  - A time is an integer number of milliseconds; Null stands for          *)
(*    null/undefined.                                                       *)
(*  - An async function is split at its await points: each action is the    *)
(*    code that runs, uninterrupted, from one await to the next.            *)
(***************************************************************************)
EXTENDS Integers, Sequences, FiniteSets, TLC

\* null / undefined (a time or a price is never negative).
Null == -1

(***************************************************************************)
(* Bounds of the model.                                                     *)
(***************************************************************************)
\* The crawl is matched against the first CatalogLen entries of productCatalog.
CatalogLen == 3
\* The clock advances at most MaxTicks times.
MaxTicks == 2
\* The listing page holds at most MaxListing URL occurrences.
MaxListing == 2

(***************************************************************************)
(* String primitives of the JavaScript runtime, on code-unit sequences.     *)
(***************************************************************************)
\* String.prototype.toLowerCase; the letters of the catalog and of the data files
\* are ASCII (65..90 have a lower case) or Hebrew (no case).
toLowerCase(s) ==
  [k \in 1..Len(s) |-> IF s[k] >= 65 /\ s[k] <= 90 THEN s[k] + 32 ELSE s[k]]

\* String.prototype.includes: t occurs in s as a contiguous run.
includes(s, t) ==
  \E k \in 0..(Len(s) - Len(t)) : SubSeq(s, k + 1, k + Len(t)) = t

\* White space removed by String.prototype.trim and skipped by parseFloat.
IsSpace(ch) == ch \in {9, 10, 11, 12, 13, 32}

RECURSIVE trimStart(_)
trimStart(s) ==
  IF s # <<>> /\ IsSpace(Head(s)) THEN trimStart(Tail(s)) ELSE s

RECURSIVE trimEnd(_)
trimEnd(s) ==
  IF s # <<>> /\ IsSpace(s[Len(s)]) THEN trimEnd(SubSeq(s, 1, Len(s) - 1)) ELSE s

\* String.prototype.trim
trim(s) == trimEnd(trimStart(s))

IsDigit(ch) == ch >= 48 /\ ch <= 57

\* Length of the longest prefix of s made of decimal digits.
RECURSIVE DigitRun(_)
DigitRun(s) ==
  IF s # <<>> /\ IsDigit(Head(s)) THEN 1 + DigitRun(Tail(s)) ELSE 0

\* Value of a sequence of decimal digits.
RECURSIVE DigitsValue(_)
DigitsValue(s) ==
  IF s = <<>> THEN 0 ELSE 10 * DigitsValue(SubSeq(s, 1, Len(s) - 1)) + (s[Len(s)] - 48)

\* The fraction digits parseFloat keeps of `rest`, what follows the integer digits:
\* the digits after a ".", of which the first two count here (the data files quote
\* prices with at most two decimals).
fractionDigits(rest) ==
  IF rest # <<>> /\ Head(rest) = 46
    THEN SubSeq(Tail(rest), 1, IF DigitRun(Tail(rest)) < 2 THEN DigitRun(Tail(rest)) ELSE 2)
    ELSE <<>>

\* The value, in agorot, of the decimal literal with the given integer and fraction
\* digits; NaN when it has no digit at all.
decimalLiteral(digits, fraction) ==
  IF digits = <<>> /\ fraction = <<>>
    THEN [nan |-> TRUE, value |-> 0]
    ELSE [nan |-> FALSE,
          value |-> 100 * DigitsValue(digits)
                      + (IF Len(fraction) = 1 THEN 10 * DigitsValue(fraction)
                         ELSE DigitsValue(fraction))]

\* parseFloat past the sign: the longest decimal literal s starts with; anything
\* after it is ignored.
unsignedLiteral(s) ==
  decimalLiteral(SubSeq(s, 1, DigitRun(s)),
                 fractionDigits(SubSeq(s, DigitRun(s) + 1, Len(s))))

negated(number) == [number EXCEPT !.value = 0 - number.value]

\* The global parseFloat, in agorot: leading white space, an optional sign, the
\* longest decimal literal; NaN when no digit is found.
signedLiteral(s) ==
  IF s # <<>> /\ Head(s) = 45 THEN negated(unsignedLiteral(Tail(s)))
  ELSE IF s # <<>> /\ Head(s) = 43 THEN unsignedLiteral(Tail(s))
  ELSE unsignedLiteral(s)

parseFloat(str) == signedLiteral(trimStart(str))

(***************************************************************************)
(* State.                                                                   *)
(***************************************************************************)
VARIABLES
  priceCache,     \* the module-level Map: catalog id -> StorePrice[]
  lastCrawlTime,  \* the module-level Date | null
  now,            \* Date.now()
  ticks,          \* how many times the clock has advanced
  call,           \* per request: where its GET handler stands, and its locals
  snapshotItems,  \* history: the items of the crawl that last rebuilt priceCache
  arg,            \* the argument of a pure function under check
  out             \* its result

vars == <<priceCache, lastCrawlTime, now, ticks, call, snapshotItems, arg, out>>

\* The variables the engine leaves alone.
aside == <<arg, out>>


(***************************************************************************)
(* The product catalog (src/src/lib/productCatalog.ts).                     *)
(***************************************************************************)
productCatalog ==
  << \* id 1: Tomatoes
     [id |-> "1",
      barcodes |-> <<<<50, 48, 48, 48, 48, 49, 48, 48, 48, 48, 48, 48, 50>>, <<50, 48, 48, 48, 48, 49, 49, 48, 48, 48, 48, 48, 49>>>>,
      searchTerms |-> <<<<1506, 1490, 1489, 1504, 1497, 1493, 1514>>, <<1506, 1490, 1489, 1504, 1497, 1492>>, <<116, 111, 109, 97, 116, 111>>>>],
     \* id 2: Cucumbers
     [id |-> "2",
      barcodes |-> <<<<50, 48, 48, 48, 48, 50, 48, 48, 48, 48, 48, 48, 49>>>>,
      searchTerms |-> <<<<1502, 1500, 1508, 1508, 1493, 1503>>, <<1502, 1500, 1508, 1508, 1493, 1504, 1497, 1501>>, <<99, 117, 99, 117, 109, 98, 101, 114>>>>],
     \* id 3: Potatoes
     [id |-> "3",
      barcodes |-> <<<<50, 48, 48, 48, 48, 51, 48, 48, 48, 48, 48, 48, 48>>>>,
      searchTerms |-> <<<<1514, 1508, 1493, 1495, 32, 1488, 1491, 1502, 1492>>, <<1514, 1508, 1493, 1495, 1497, 32, 1488, 1491, 1502, 1492>>, <<112, 111, 116, 97, 116, 111>>>>],
     \* id 4: Onions
     [id |-> "4",
      barcodes |-> <<<<50, 48, 48, 48, 48, 52, 48, 48, 48, 48, 48, 48, 57>>>>,
      searchTerms |-> <<<<1489, 1510, 1500>>, <<111, 110, 105, 111, 110>>>>],
     \* id 5: Carrots
     [id |-> "5",
      barcodes |-> <<<<50, 48, 48, 48, 48, 53, 48, 48, 48, 48, 48, 48, 56>>>>,
      searchTerms |-> <<<<1490, 1494, 1512>>, <<99, 97, 114, 114, 111, 116>>>>],
     \* id 6: Bell Pepper
     [id |-> "6",
      barcodes |-> <<<<50, 48, 48, 48, 48, 54, 48, 48, 48, 48, 48, 48, 55>>>>,
      searchTerms |-> <<<<1508, 1500, 1508, 1500>>, <<112, 101, 112, 112, 101, 114>>>>],
     \* id 7: Lettuce
     [id |-> "7",
      barcodes |-> <<<<50, 48, 48, 48, 48, 55, 48, 48, 48, 48, 48, 48, 54>>>>,
      searchTerms |-> <<<<1495, 1505, 1492>>, <<108, 101, 116, 116, 117, 99, 101>>>>],
     \* id 8: Apples
     [id |-> "8",
      barcodes |-> <<<<50, 48, 48, 48, 48, 56, 48, 48, 48, 48, 48, 48, 53>>>>,
      searchTerms |-> <<<<1514, 1508, 1493, 1495>>, <<1514, 1508, 1493, 1495, 1497, 1501>>, <<97, 112, 112, 108, 101>>>>],
     \* id 9: Bananas
     [id |-> "9",
      barcodes |-> <<<<50, 48, 48, 48, 48, 57, 48, 48, 48, 48, 48, 48, 52>>>>,
      searchTerms |-> <<<<1489, 1504, 1504, 1492>>, <<1489, 1504, 1504, 1493, 1514>>, <<98, 97, 110, 97, 110, 97>>>>],
     \* id 10: Oranges
     [id |-> "10",
      barcodes |-> <<<<50, 48, 48, 48, 49, 48, 48, 48, 48, 48, 48, 48, 51>>>>,
      searchTerms |-> <<<<1514, 1508, 1493, 1494>>, <<1514, 1508, 1493, 1494, 1497, 1501>>, <<111, 114, 97, 110, 103, 101>>>>],
     \* id 11: Grapes
     [id |-> "11",
      barcodes |-> <<<<50, 48, 48, 48, 49, 49, 48, 48, 48, 48, 48, 48, 50>>>>,
      searchTerms |-> <<<<1506, 1504, 1489, 1497, 1501>>, <<1506, 1504, 1489>>, <<103, 114, 97, 112, 101>>>>],
     \* id 12: Watermelon
     [id |-> "12",
      barcodes |-> <<<<50, 48, 48, 48, 49, 50, 48, 48, 48, 48, 48, 48, 49>>>>,
      searchTerms |-> <<<<1488, 1489, 1496, 1497, 1495>>, <<119, 97, 116, 101, 114, 109, 101, 108, 111, 110>>>>],
     \* id 13: Milk 3%
     [id |-> "13",
      barcodes |-> <<<<55, 50, 57, 48, 48, 48, 48, 48, 54, 54, 51, 49, 56>>, <<55, 50, 57, 48, 48, 48, 48, 48, 54, 54, 51, 50, 53>>, <<55, 50, 57, 48, 49, 48, 50, 57, 57, 48, 48, 49, 55>>>>,
      searchTerms |-> <<<<1495, 1500, 1489>>, <<109, 105, 108, 107>>, <<51, 37>>>>],
     \* id 14: Eggs
     [id |-> "14",
      barcodes |-> <<<<55, 50, 57, 48, 48, 48, 48, 49, 50, 57, 54, 49, 55>>, <<55, 50, 57, 48, 48, 48, 48, 49, 50, 57, 54, 50, 52>>>>,
      searchTerms |-> <<<<1489, 1497, 1510, 1497, 1501>>, <<1489, 1497, 1510, 1492>>, <<101, 103, 103, 115>>, <<1514, 1512, 1497, 1505, 1512>>>>],
     \* id 15: Cottage Cheese
     [id |-> "15",
      barcodes |-> <<<<55, 50, 57, 48, 48, 48, 48, 48, 53, 49, 50, 51, 52>>, <<55, 50, 57, 48, 48, 48, 48, 48, 53, 49, 50, 52, 49>>>>,
      searchTerms |-> <<<<1511, 1493, 1496, 1490>>, <<99, 111, 116, 116, 97, 103, 101>>, <<1490, 1489, 1497, 1504, 1492, 32, 1500, 1489, 1504, 1492>>>>],
     \* id 16: Yellow Cheese
     [id |-> "16",
      barcodes |-> <<<<55, 50, 57, 48, 48, 48, 48, 48, 55, 56, 50, 51, 49>>, <<55, 50, 57, 48, 48, 48, 48, 48, 55, 56, 50, 52, 56>>>>,
      searchTerms |-> <<<<1490, 1489, 1497, 1504, 1492, 32, 1510, 1492, 1493, 1489, 1492>>, <<1506, 1502, 1511>>, <<99, 104, 101, 101, 115, 101>>>>],
     \* id 17: Butter
     [id |-> "17",
      barcodes |-> <<<<55, 50, 57, 48, 48, 48, 48, 48, 52, 53, 54, 55, 56>>>>,
      searchTerms |-> <<<<1495, 1502, 1488, 1492>>, <<98, 117, 116, 116, 101, 114>>>>],
     \* id 18: White Bread
     [id |-> "18",
      barcodes |-> <<<<55, 50, 57, 48, 48, 48, 48, 49, 50, 51, 52, 53, 54>>, <<55, 50, 57, 48, 48, 48, 56, 55, 48, 48, 48, 49, 54>>>>,
      searchTerms |-> <<<<1500, 1495, 1501, 32, 1500, 1489, 1503>>, <<1500, 1495, 1501>>, <<98, 114, 101, 97, 100>>, <<1488, 1504, 1490, 39, 1500>>>>],
     \* id 19: Pita
     [id |-> "19",
      barcodes |-> <<<<55, 50, 57, 48, 48, 48, 48, 50, 51, 52, 53, 54, 55>>>>,
      searchTerms |-> <<<<1508, 1497, 1514, 1492>>, <<1508, 1497, 1514, 1493, 1514>>, <<112, 105, 116, 97>>>>],
     \* id 20: Challah
     [id |-> "20",
      barcodes |-> <<<<55, 50, 57, 48, 48, 48, 48, 51, 52, 53, 54, 55, 56>>>>,
      searchTerms |-> <<<<1495, 1500, 1492>>, <<99, 104, 97, 108, 108, 97, 104>>>>],
     \* id 21: Chicken Breast
     [id |-> "21",
      barcodes |-> <<<<50, 48, 48, 48, 50, 49, 48, 48, 48, 48, 48, 48, 53>>>>,
      searchTerms |-> <<<<1495, 1494, 1492, 32, 1506, 1493, 1507>>, <<1506, 1493, 1507>>, <<99, 104, 105, 99, 107, 101, 110, 32, 98, 114, 101, 97, 115, 116>>>>],
     \* id 22: Ground Beef
     [id |-> "22",
      barcodes |-> <<<<50, 48, 48, 48, 50, 50, 48, 48, 48, 48, 48, 48, 52>>>>,
      searchTerms |-> <<<<1489, 1513, 1512, 32, 1496, 1495, 1493, 1503>>, <<103, 114, 111, 117, 110, 100, 32, 98, 101, 101, 102>>, <<1489, 1511, 1512, 32, 1496, 1495, 1493, 1503>>>>],
     \* id 23: Chicken Thighs
     [id |-> "23",
      barcodes |-> <<<<50, 48, 48, 48, 50, 51, 48, 48, 48, 48, 48, 48, 51>>>>,
      searchTerms |-> <<<<1497, 1512, 1499, 1497, 1497, 1501>>, <<1497, 1512, 1498, 32, 1506, 1493, 1507>>, <<99, 104, 105, 99, 107, 101, 110, 32, 116, 104, 105, 103, 104>>>>],
     \* id 24: Salmon Fillet
     [id |-> "24",
      barcodes |-> <<<<50, 48, 48, 48, 50, 52, 48, 48, 48, 48, 48, 48, 50>>>>,
      searchTerms |-> <<<<1505, 1500, 1502, 1493, 1503>>, <<115, 97, 108, 109, 111, 110>>, <<1508, 1497, 1500, 1492>>>>],
     \* id 25: Tilapia
     [id |-> "25",
      barcodes |-> <<<<50, 48, 48, 48, 50, 53, 48, 48, 48, 48, 48, 48, 49>>>>,
      searchTerms |-> <<<<1488, 1502, 1504, 1493, 1503>>, <<116, 105, 108, 97, 112, 105, 97>>, <<1491, 1490>>>>],
     \* id 26: Tuna Can
     [id |-> "26",
      barcodes |-> <<<<55, 50, 57, 48, 48, 48, 48, 53, 54, 55, 56, 57, 48>>, <<55, 50, 57, 48, 48, 48, 48, 53, 54, 55, 56, 57, 49>>>>,
      searchTerms |-> <<<<1496, 1493, 1504, 1492>>, <<116, 117, 110, 97>>, <<1513, 1497, 1502, 1493, 1512, 1497, 1501>>>>],
     \* id 27: Corn Can
     [id |-> "27",
      barcodes |-> <<<<55, 50, 57, 48, 48, 48, 48, 54, 55, 56, 57, 48, 49>>>>,
      searchTerms |-> <<<<1514, 1497, 1512, 1505>>, <<99, 111, 114, 110>>, <<1513, 1497, 1502, 1493, 1512, 1497, 1501>>>>],
     \* id 28: Chickpeas
     [id |-> "28",
      barcodes |-> <<<<55, 50, 57, 48, 48, 48, 48, 55, 56, 57, 48, 49, 50>>>>,
      searchTerms |-> <<<<1495, 1493, 1502, 1493, 1505>>, <<1490, 1512, 1490, 1497, 1512, 1497, 32, 1495, 1493, 1502, 1493, 1505>>, <<99, 104, 105, 99, 107, 112, 101, 97, 115>>>>],
     \* id 29: Coca Cola
     [id |-> "29",
      barcodes |-> <<<<53, 48, 48, 48, 49, 49, 50, 54, 49, 49, 55, 55, 57>>, <<53, 52, 52, 57, 48, 48, 48, 48, 48, 48, 57, 57, 54>>, <<53, 52, 52, 57, 48, 48, 48, 50, 49, 52, 53, 57, 49>>>>,
      searchTerms |-> <<<<1511, 1493, 1511, 1492, 32, 1511, 1493, 1500, 1492>>, <<1511, 1493, 1500, 1492>>, <<99, 111, 99, 97, 32, 99, 111, 108, 97>>, <<99, 111, 107, 101>>>>],
     \* id 30: Orange Juice
     [id |-> "30",
      barcodes |-> <<<<55, 50, 57, 48, 48, 48, 48, 56, 57, 48, 49, 50, 51>>, <<55, 50, 57, 48, 48, 48, 48, 56, 57, 48, 49, 50, 52>>>>,
      searchTerms |-> <<<<1502, 1497, 1509, 32, 1514, 1508, 1493, 1494, 1497, 1501>>, <<1502, 1497, 1509>>, <<111, 114, 97, 110, 103, 101, 32, 106, 117, 105, 99, 101>>, <<1508, 1512, 1497, 1490, 1514>>>>],
     \* id 31: Mineral Water
     [id |-> "31",
      barcodes |-> <<<<55, 50, 57, 48, 48, 48, 48, 57, 48, 49, 50, 51, 52>>, <<55, 50, 57, 48, 48, 48, 48, 57, 48, 49, 50, 51, 53>>>>,
      searchTerms |-> <<<<1502, 1497, 1501>>, <<1502, 1497, 1504, 1512, 1500, 1497, 1501>>, <<1504, 1489, 1497, 1506, 1493, 1514>>, <<119, 97, 116, 101, 114>>>>],
     \* id 32: Bamba
     [id |-> "32",
      barcodes |-> <<<<55, 50, 57, 48, 48, 48, 48, 48, 49, 50, 51, 52, 54>>, <<55, 50, 57, 48, 48, 48, 48, 48, 49, 50, 51, 53, 51>>>>,
      searchTerms |-> <<<<1489, 1502, 1489, 1492>>, <<98, 97, 109, 98, 97>>, <<1488, 1493, 1505, 1501>>>>],
     \* id 33: Bissli
     [id |-> "33",
      barcodes |-> <<<<55, 50, 57, 48, 48, 48, 48, 48, 50, 51, 52, 53, 54>>, <<55, 50, 57, 48, 48, 48, 48, 48, 50, 51, 52, 54, 51>>>>,
      searchTerms |-> <<<<1489, 1497, 1505, 1500, 1497>>, <<98, 105, 115, 115, 108, 105>>, <<1488, 1493, 1505, 1501>>>>],
     \* id 34: Dish Soap
     [id |-> "34",
      barcodes |-> <<<<55, 50, 57, 48, 48, 48, 48, 51, 52, 53, 54, 55, 56>>, <<55, 50, 57, 48, 48, 48, 48, 51, 52, 53, 54, 55, 57>>>>,
      searchTerms |-> <<<<1505, 1489, 1493, 1503, 32, 1499, 1500, 1497, 1501>>, <<1504, 1493, 1494, 1500, 32, 1499, 1500, 1497, 1501>>, <<100, 105, 115, 104, 32, 115, 111, 97, 112>>, <<1508, 1497, 1497, 1512, 1497>>>>],
     \* id 35: Laundry Detergent
     [id |-> "35",
      barcodes |-> <<<<55, 50, 57, 48, 48, 48, 48, 52, 53, 54, 55, 56, 57>>, <<55, 50, 57, 48, 48, 48, 48, 52, 53, 54, 55, 57, 48>>>>,
      searchTerms |-> <<<<1488, 1489, 1511, 1514, 32, 1499, 1489, 1497, 1505, 1492>>, <<1499, 1489, 1497, 1505, 1492>>, <<108, 97, 117, 110, 100, 114, 121>>, <<1505, 1504, 1493>>>>] >>

\* The table of getFallbackPrice, in agorot.
fallbackPrices ==
  <<
     [id |-> "1", average |-> 890, low |-> 590, high |-> 1490],   \* Tomatoes
     [id |-> "2", average |-> 690, low |-> 390, high |-> 990],   \* Cucumbers
     [id |-> "3", average |-> 550, low |-> 350, high |-> 890],   \* Potatoes
     [id |-> "4", average |-> 490, low |-> 290, high |-> 790],   \* Onions
     [id |-> "5", average |-> 590, low |-> 390, high |-> 890],   \* Carrots
     [id |-> "6", average |-> 1290, low |-> 790, high |-> 1990],   \* Bell Pepper
     [id |-> "7", average |-> 690, low |-> 490, high |-> 990],   \* Lettuce
     [id |-> "8", average |-> 990, low |-> 690, high |-> 1490],   \* Apples
     [id |-> "9", average |-> 790, low |-> 590, high |-> 1190],   \* Bananas
     [id |-> "10", average |-> 690, low |-> 490, high |-> 990],   \* Oranges
     [id |-> "11", average |-> 1990, low |-> 1290, high |-> 2990],   \* Grapes
     [id |-> "12", average |-> 490, low |-> 290, high |-> 790],   \* Watermelon
     [id |-> "13", average |-> 690, low |-> 590, high |-> 790],   \* Milk
     [id |-> "14", average |-> 2390, low |-> 1990, high |-> 2990],   \* Eggs
     [id |-> "15", average |-> 790, low |-> 590, high |-> 990],   \* Cottage
     [id |-> "16", average |-> 1890, low |-> 1490, high |-> 2490],   \* Yellow Cheese
     [id |-> "17", average |-> 1290, low |-> 990, high |-> 1690],   \* Butter
     [id |-> "18", average |-> 890, low |-> 690, high |-> 1290],   \* White Bread
     [id |-> "19", average |-> 790, low |-> 590, high |-> 1090],   \* Pita
     [id |-> "20", average |-> 1490, low |-> 1090, high |-> 1990],   \* Challah
     [id |-> "21", average |-> 3990, low |-> 2990, high |-> 4990],   \* Chicken Breast
     [id |-> "22", average |-> 5490, low |-> 4490, high |-> 6990],   \* Ground Beef
     [id |-> "23", average |-> 2990, low |-> 2290, high |-> 3990],   \* Chicken Thighs
     [id |-> "24", average |-> 8990, low |-> 6990, high |-> 11990],   \* Salmon
     [id |-> "25", average |-> 4490, low |-> 3490, high |-> 5490],   \* Tilapia
     [id |-> "26", average |-> 990, low |-> 690, high |-> 1490],   \* Tuna
     [id |-> "27", average |-> 790, low |-> 490, high |-> 1090],   \* Corn
     [id |-> "28", average |-> 690, low |-> 490, high |-> 990],   \* Chickpeas
     [id |-> "29", average |-> 890, low |-> 590, high |-> 1190],   \* Coca Cola
     [id |-> "30", average |-> 1290, low |-> 990, high |-> 1690],   \* Orange Juice
     [id |-> "31", average |-> 490, low |-> 290, high |-> 690],   \* Water
     [id |-> "32", average |-> 690, low |-> 490, high |-> 890],   \* Bamba
     [id |-> "33", average |-> 690, low |-> 490, high |-> 890],   \* Bissli
     [id |-> "34", average |-> 1490, low |-> 990, high |-> 1990],   \* Dish Soap
     [id |-> "35", average |-> 3990, low |-> 2990, high |-> 5490]    \* Laundry Detergent
  >>

\* The entries of productCatalog the crawl is matched against, in catalog order.
catalog == SubSeq(productCatalog, 1, CatalogLen)

\* The ids of the catalog, the keys a complete priceCache has.
catalogIds == {catalog[k].id : k \in 1..Len(catalog)}

(***************************************************************************)
(* Helpers for arrays.                                                      *)
(***************************************************************************)
\* Mutant of slice0: the whole array.
sliceAll(arr, n) == arr

\* Array.prototype.slice(0, n)
slice0(arr, n) == SubSeq(arr, 1, IF Len(arr) < n THEN Len(arr) ELSE n)

\* Mutant of MathMin: the first value.
MathMinFirst(values) == values[1]

\* Math.min(...values) and Math.max(...values) of a non-empty array.
MathMin(values) ==
  CHOOSE v \in {values[k] : k \in 1..Len(values)} :
    \A k \in 1..Len(values) : v <= values[k]

MathMax(values) ==
  CHOOSE v \in {values[k] : k \in 1..Len(values)} :
    \A k \in 1..Len(values) : v >= values[k]

\* values.reduce((a, b) => a + b, 0)
RECURSIVE SumOf(_)
SumOf(values) ==
  IF values = <<>> THEN 0 ELSE Head(values) + SumOf(Tail(values))

\* Mutant of RoundToTenth: Math.floor in the place of Math.round.
FloorToTenth(numer, denom) ==
  10 * (numer \div (10 * denom))

\* Math.round(x * 10) / 10 for the price x = numer / denom agorot (denom > 0,
\* numer >= 0), in agorot: the nearest multiple of 10 agorot, a half rounding up.
RoundToTenth(numer, denom) ==
  10 * ((2 * numer + 10 * denom) \div (20 * denom))

(***************************************************************************)
(* Record parser (src/src/crawlers/shufersal.ts).  A data file is the       *)
(* sequence of its <Item> blocks; a block is the sequence of its elements,  *)
(* each [tag, text].                                                        *)
(***************************************************************************)
\* getTagValue of parseXMLPrices: the trimmed text of the first <tag> element of
\* the block, "" when there is none.
getTagValue(itemXml, tag) ==
  LET hits == {k \in 1..Len(itemXml) : itemXml[k].tag = tag}
  IN  IF hits = {}
        THEN <<>>
        ELSE trim(itemXml[CHOOSE k \in hits : \A j \in hits : k <= j].text)

\* a || b on strings: b when a is empty.
orElse(a, b) == IF a # <<>> THEN a ELSE b

\* parseFloat(str) || fallback: the fallback when the number is NaN or 0.
parseFloatOr(str, fallback) ==
  IF parseFloat(str).nan \/ parseFloat(str).value = 0
    THEN fallback
    ELSE parseFloat(str).value

\* unitPriceStr ? parseFloat(unitPriceStr) : undefined
optionalFloat(str) == IF str # <<>> THEN parseFloat(str).value ELSE Null

\* The body of the loop of parseXMLPrices for one block: the record it builds.
parseItem(itemXml) ==
  [itemCode |-> getTagValue(itemXml, "ItemCode"),
   itemName |-> getTagValue(itemXml, "ItemName"),
   itemPrice |-> parseFloatOr(getTagValue(itemXml, "ItemPrice"), 0),
   unitOfMeasure |-> orElse(getTagValue(itemXml, "UnitOfMeasure"),
                            getTagValue(itemXml, "Quantity")),
   quantity |-> parseFloatOr(orElse(getTagValue(itemXml, "Quantity"), <<49>>), 100),
   unitOfMeasurePrice |-> optionalFloat(getTagValue(itemXml, "UnitOfMeasurePrice")),
   priceUpdateDate |-> getTagValue(itemXml, "PriceUpdateDate")]

\* Mutant of isPushed: the price is not looked at.
isPushedWithCode(item) == item.itemCode # <<>>

\* if (itemCode && itemPrice > 0): the record is pushed.
isPushed(item) == item.itemCode # <<>> /\ item.itemPrice > 0

\* parseXMLPrices: the pushed records, in the order of their blocks.
parseXMLPrices(xmlContent) ==
  SelectSeq([k \in 1..Len(xmlContent) |-> parseItem(xmlContent[k])], isPushed)

(***************************************************************************)
(* Deduplication at the end of crawlShufersal.                              *)
(***************************************************************************)
\* Mutant of uniqueItemsSet: the record seen first is kept, whatever its price.
uniqueItemsSetFirst(uniqueItems, item) ==
  IF \E k \in 1..Len(uniqueItems) : uniqueItems[k].itemCode = item.itemCode
    THEN uniqueItems
    ELSE Append(uniqueItems, item)

\* One iteration of the uniqueItems loop.  A Map keeps a key at the position of its
\* first insertion; setting it again replaces the value in place.
uniqueItemsSet(uniqueItems, item) ==
  LET hits == {k \in 1..Len(uniqueItems) : uniqueItems[k].itemCode = item.itemCode}
  IN  IF hits = {}
        THEN Append(uniqueItems, item)
        ELSE LET k == CHOOSE j \in hits : TRUE
             IN  IF item.itemPrice < uniqueItems[k].itemPrice
                   THEN [uniqueItems EXCEPT ![k] = item]
                   ELSE uniqueItems

\* Array.from(uniqueItems.values()) after the loop over items.
RECURSIVE uniqueItemsOf(_, _)
uniqueItemsOf(items, uniqueItems) ==
  IF items = <<>>
    THEN uniqueItems
    ELSE uniqueItemsOf(Tail(items), uniqueItemsSet(uniqueItems, Head(items)))

\* The highPrices map built after it: the highest price seen per item code.  The
\* crawl builds it and never reads it.
highPrices(items) ==
  [code \in {items[k].itemCode : k \in 1..Len(items)} |->
     MathMax([k \in 1..Len(items) |->
                IF items[k].itemCode = code THEN items[k].itemPrice ELSE 0])]

\* searchItems: the items matching one of the terms, in encounter order.
searchItems(items, searchTerms) ==
  SelectSeq(items,
    LAMBDA item :
      \E t \in 1..Len(searchTerms) :
        \/ item.itemCode = searchTerms[t]
        \/ includes(item.itemCode, searchTerms[t])
        \/ includes(toLowerCase(item.itemName), toLowerCase(searchTerms[t])))

(***************************************************************************)
(* Price service (src/src/lib/priceService.ts).                             *)
(***************************************************************************)
\* The StorePrice pushed for a matching item.
StorePriceOf(match) ==
  [storeName |-> "Shufersal",
   storeChain |-> "Shufersal",
   price |-> match.itemPrice,
   priceUpdateDate |-> match.priceUpdateDate]

\* The barcode loop of findPricesForProduct: for each barcode in turn, the items
\* carrying exactly that code.
RECURSIVE barcodeMatches(_, _)
barcodeMatches(barcodes, allItems) ==
  IF barcodes = <<>>
    THEN <<>>
    ELSE SelectSeq(allItems, LAMBDA item : item.itemCode = Head(barcodes))
         \o barcodeMatches(Tail(barcodes), allItems)

\* Mutant of fuzzyMatches: no slice(0, 5).
fuzzyMatchesAll(product, allItems) ==
  searchItems([k \in 1..Len(allItems) |->
                 [allItems[k] EXCEPT !.unitOfMeasure = <<>>, !.quantity = 100]],
              product.searchTerms)

\* The fuzzy branch of findPricesForProduct: the first five items searchItems finds.
fuzzyMatches(product, allItems) ==
  slice0(searchItems([k \in 1..Len(allItems) |->
                        [allItems[k] EXCEPT !.unitOfMeasure = <<>>, !.quantity = 100]],
                     product.searchTerms),
         5)

\* Mutant of findPricesForProduct: the fuzzy matches are added whether or not a
\* barcode matched.
findPricesForProductBoth(product, allItems) ==
  LET matched == barcodeMatches(product.barcodes, allItems)
                   \o fuzzyMatches(product, allItems)
  IN  [k \in 1..Len(matched) |-> StorePriceOf(matched[k])]

findPricesForProduct(product, allItems) ==
  LET exact   == barcodeMatches(product.barcodes, allItems)
      matched == IF Len(exact) = 0 THEN fuzzyMatches(product, allItems) ELSE exact
  IN  [k \in 1..Len(matched) |-> StorePriceOf(matched[k])]

\* Mutant of calculatePriceStats: no filter for strictly positive prices.
calculatePriceStatsUnfiltered(prices) ==
  LET priceValues == [k \in 1..Len(prices) |-> prices[k].price]
  IN  IF Len(prices) = 0
        THEN [averagePrice |-> 0, lowPrice |-> 0, highPrice |-> 0]
        ELSE [averagePrice |-> RoundToTenth(SumOf(priceValues), Len(priceValues)),
              lowPrice     |-> RoundToTenth(MathMin(priceValues), 1),
              highPrice    |-> RoundToTenth(MathMax(priceValues), 1)]

calculatePriceStats(prices) ==
  LET priceValues == SelectSeq([k \in 1..Len(prices) |-> prices[k].price],
                               LAMBDA p : p > 0)
  IN  IF Len(prices) = 0 \/ Len(priceValues) = 0
        THEN [averagePrice |-> 0, lowPrice |-> 0, highPrice |-> 0]
        ELSE [averagePrice |-> RoundToTenth(SumOf(priceValues), Len(priceValues)),
              lowPrice     |-> RoundToTenth(MathMin(priceValues), 1),
              highPrice    |-> RoundToTenth(MathMax(priceValues), 1)]

\* The estimate of a table entry.
estimateOf(entry) == [average |-> entry.average, low |-> entry.low, high |-> entry.high]

\* The property names an object literal inherits from Object.prototype: a lookup
\* by such a name finds the inherited member when the object has no own property
\* of that name.
ObjectPrototypeNames ==
  {"constructor", "toString", "toLocaleString", "valueOf", "hasOwnProperty",
   "isPrototypeOf", "propertyIsEnumerable", "__proto__", "__defineGetter__",
   "__defineSetter__", "__lookupGetter__", "__lookupSetter__"}

\* fallbackPrices[productId] || { average: 10, low: 5, high: 15 }, for the table
\* `prices`: the own entry of the id; else the member inherited under that name,
\* which is truthy and has no average, low or high; else the default.
lookupOrDefault(prices, productId) ==
  IF \E k \in 1..Len(prices) : prices[k].id = productId
    THEN estimateOf(prices[CHOOSE k \in 1..Len(prices) : prices[k].id = productId])
    ELSE IF productId \in ObjectPrototypeNames
      THEN [average |-> Null, low |-> Null, high |-> Null]
      ELSE [average |-> 1000, low |-> 500, high |-> 1500]

\* getFallbackPrice: the table entry of the id, or the default estimate.
getFallbackPrice(productId) == lookupOrDefault(fallbackPrices, productId)

\* priceCache.get(id) || []
cacheGet(cache, id) == IF id \in DOMAIN cache THEN cache[id] ELSE <<>>

\* The Product buildProductsFromCache makes of a catalog entry, its cached store
\* prices, their statistics and the fallback estimate.
productOf(catalogProduct, storePrices, stats, hasRealData, fallback, crawlTime) ==
  [id |-> catalogProduct.id,
   barcode |-> catalogProduct.barcodes[1],
   averagePrice |-> IF hasRealData THEN stats.averagePrice ELSE fallback.average,
   lowPrice |-> IF hasRealData THEN stats.lowPrice ELSE fallback.low,
   highPrice |-> IF hasRealData THEN stats.highPrice ELSE fallback.high,
   lastUpdated |-> crawlTime,
   storePrices |-> IF hasRealData THEN storePrices ELSE <<>>]

\* hasRealData = storePrices.length > 0 && stats.averagePrice > 0
hasRealDataOf(storePrices, stats) == Len(storePrices) > 0 /\ stats.averagePrice > 0

\* One Product of buildProductsFromCache.
cachedProduct(catalogProduct, cache, crawlTime) ==
  productOf(catalogProduct,
            cacheGet(cache, catalogProduct.id),
            calculatePriceStats(cacheGet(cache, catalogProduct.id)),
            hasRealDataOf(cacheGet(cache, catalogProduct.id),
                          calculatePriceStats(cacheGet(cache, catalogProduct.id))),
            getFallbackPrice(catalogProduct.id),
            crawlTime)

\* buildProductsFromCache, reading the cache and lastCrawlTime it is given.
buildProductsFromCache(cache, crawlTime) ==
  [k \in 1..Len(catalog) |-> cachedProduct(catalog[k], cache, crawlTime)]

\* One Product of getFallbackProducts.  The fields copied verbatim from the catalog
\* entry are represented by id and barcode; an absent lastUpdated is Null, an absent
\* storePrices the empty sequence (a present one is never empty).
fallbackProductOf(catalogProduct, prices) ==
  [id |-> catalogProduct.id,
   barcode |-> catalogProduct.barcodes[1],
   averagePrice |-> prices.average,
   lowPrice |-> prices.low,
   highPrice |-> prices.high,
   lastUpdated |-> Null,
   storePrices |-> <<>>]

fallbackProduct(catalogProduct) ==
  fallbackProductOf(catalogProduct, getFallbackPrice(catalogProduct.id))

\* Mutant of getFallbackProducts: the list is built from the cache.
getFallbackProductsFromCache ==
  buildProductsFromCache(priceCache, lastCrawlTime)

getFallbackProducts ==
  [k \in 1..Len(catalog) |-> fallbackProduct(catalog[k])]

\* Mutant of rebuildCache: no clear(), and a set() only for the products that
\* have a match.
rebuildCacheInPlace(cache, items) ==
  LET found(id) ==
        findPricesForProduct(catalog[CHOOSE k \in 1..Len(catalog) : catalog[k].id = id],
                             items)
  IN  [id \in DOMAIN cache \cup {x \in catalogIds : found(x) # <<>>} |->
         IF found(id) # <<>> THEN found(id) ELSE cache[id]]

\* Lines 118-122 of fetchAllPrices: the cache after clear() and one set() per
\* catalog product.
rebuildCache(cache, items) ==
  [id \in catalogIds |->
     findPricesForProduct(catalog[CHOOSE k \in 1..Len(catalog) : catalog[k].id = id],
                          items)]

\* Mutant of positionLeq: the comparison with the threshold is strict.
positionLt(num, range, a, b) ==
  IF range > 0 THEN num * b < a * range
  ELSE IF range < 0 THEN num * b > a * range
  ELSE num < 0

\* position <= a / b in getPriceRating, where position = num / range in IEEE
\* arithmetic: a division by zero gives -Infinity (num < 0), NaN (num = 0) or
\* +Infinity (num > 0), and only -Infinity is <= a threshold.
positionLeq(num, range, a, b) ==
  IF range > 0 THEN num * b <= a * range
  ELSE IF range < 0 THEN num * b >= a * range
  ELSE num < 0

\* Mutant of getPriceRating: no test for a range of zero.
getPriceRatingUnguarded(price, product) ==
  LET range == product.highPrice - product.lowPrice
      num   == price - product.lowPrice
  IN  IF positionLeq(num, range, 10, 100) THEN "great"
      ELSE IF positionLeq(num, range, 35, 100) THEN "good"
      ELSE IF positionLeq(num, range, 65, 100) THEN "average"
      ELSE IF positionLeq(num, range, 85, 100) THEN "high"
      ELSE "expensive"

\* Mutant of getPriceRating: the labels of the two cheapest bands are exchanged.
getPriceRatingSwapped(price, product) ==
  LET range == product.highPrice - product.lowPrice
      num   == price - product.lowPrice
  IN  IF range = 0 THEN "average"
      ELSE IF positionLeq(num, range, 10, 100) THEN "good"
      ELSE IF positionLeq(num, range, 35, 100) THEN "great"
      ELSE IF positionLeq(num, range, 65, 100) THEN "average"
      ELSE IF positionLeq(num, range, 85, 100) THEN "high"
      ELSE "expensive"

getPriceRating(price, product) ==
  LET range == product.highPrice - product.lowPrice
      num   == price - product.lowPrice
  IN  IF range = 0 THEN "average"
      ELSE IF positionLeq(num, range, 10, 100) THEN "great"
      ELSE IF positionLeq(num, range, 35, 100) THEN "good"
      ELSE IF positionLeq(num, range, 65, 100) THEN "average"
      ELSE IF positionLeq(num, range, 85, 100) THEN "high"
      ELSE "expensive"

\* getPriceRating of the page (src/src/app/page.tsx), a copy of the service's.
pageGetPriceRating(price, product) ==
  LET range == product.highPrice - product.lowPrice
      num   == price - product.lowPrice
  IN  IF range = 0 THEN "average"
      ELSE IF positionLeq(num, range, 10, 100) THEN "great"
      ELSE IF positionLeq(num, range, 35, 100) THEN "good"
      ELSE IF positionLeq(num, range, 65, 100) THEN "average"
      ELSE IF positionLeq(num, range, 85, 100) THEN "high"
      ELSE "expensive"

(***************************************************************************)
(* Sample <Item> blocks of the data files.                                  *)
(***************************************************************************)
\* ItemCode 2000010000002 (a barcode of catalog id 1), ItemName "Tomato", ItemPrice " 5.90 ", PriceUpdateDate "2024-01-15"
ItemTomato ==
  << [tag |-> "ItemCode", text |-> <<50, 48, 48, 48, 48, 49, 48, 48, 48, 48, 48, 48, 50>>],
     [tag |-> "ItemName", text |-> <<84, 111, 109, 97, 116, 111>>],
     [tag |-> "ItemPrice", text |-> <<32, 53, 46, 57, 48, 32>>],
     [tag |-> "PriceUpdateDate", text |-> <<50, 48, 50, 52, 45, 48, 49, 45, 49, 53>>] >>

\* ItemCode 7290011111111, ItemName "Shampoo", ItemPrice "12.9": matches no catalog entry
ItemShampoo ==
  << [tag |-> "ItemCode", text |-> <<55, 50, 57, 48, 48, 49, 49, 49, 49, 49, 49, 49, 49>>],
     [tag |-> "ItemName", text |-> <<83, 104, 97, 109, 112, 111, 111>>],
     [tag |-> "ItemPrice", text |-> <<49, 50, 46, 57>>] >>

\* ItemCode 2000020000001 (the barcode of catalog id 2), ItemPrice "n/a": a malformed record
ItemNoPrice ==
  << [tag |-> "ItemCode", text |-> <<50, 48, 48, 48, 48, 50, 48, 48, 48, 48, 48, 48, 49>>],
     [tag |-> "ItemName", text |-> <<67, 117, 99, 117, 109, 98, 101, 114>>],
     [tag |-> "ItemPrice", text |-> <<110, 47, 97>>] >>

(***************************************************************************)
(* The network, as the crawl sees it.                                       *)
(***************************************************************************)
\* The blob URLs the listing page may link to.
PriceFileUrls == {"PriceFull7290027600007-001.gz", "Price7290027600007-002.gz"}

\* The data files the blob store may serve.
XmlNoRecords == <<ItemNoPrice>>
XmlTomato    == <<ItemNoPrice, ItemTomato>>
XmlShampoo   == <<ItemShampoo>>
Payloads     == {XmlNoRecords, XmlTomato, XmlShampoo}

\* All sequences over S of length at most n.
SeqsUpTo(S, n) == UNION {[1..k -> S] : k \in 0..n}

\* What the GET of the listing page may bring: a network error or a non-2xx status
\* (ok = FALSE), or a page whose text holds the given URL occurrences in order,
\* each with its "&" written as such or as "&amp;".
ListingResponses ==
  {[ok |-> FALSE, matches |-> <<>>]}
    \cup {[ok |-> TRUE, matches |-> m] :
            m \in SeqsUpTo([url : PriceFileUrls, escaped : BOOLEAN], MaxListing)}

\* What the GET of a data file may bring: a failure, or a payload that is gzipped
\* or plain, and when gzipped intact or corrupt.
DownloadResponses ==
  {[ok |-> FALSE, gzip |-> FALSE, intact |-> TRUE, xml |-> <<>>]}
    \cup [ok : {TRUE}, gzip : BOOLEAN, intact : BOOLEAN, xml : Payloads]

\* url.replace(/&amp;/g, "&")...: the occurrence with its entities decoded.
decodeEntities(match) == match.url

\* [...new Set(urls)]: the first occurrence of each URL, in order.
RECURSIVE uniqueUrls(_, _)
uniqueUrls(urls, seen) ==
  IF urls = <<>> THEN <<>>
  ELSE IF Head(urls) \in seen THEN uniqueUrls(Tail(urls), seen)
  ELSE <<Head(urls)>> \o uniqueUrls(Tail(urls), seen \cup {Head(urls)})

\* fetchPriceFileUrls: throws on a failed listing request, else the distinct URLs.
fetchPriceFileUrls(response) ==
  IF ~response.ok
    THEN [threw |-> TRUE, urls |-> <<>>]
    ELSE [threw |-> FALSE,
          urls |-> uniqueUrls([k \in 1..Len(response.matches) |->
                                 decodeEntities(response.matches[k])], {})]

\* downloadPriceFile: throws on a failed request or a corrupt gzip stream, else the
\* text of the file, gunzipped when it starts with the gzip magic bytes.
downloadPriceFile(response) ==
  IF ~response.ok \/ (response.gzip /\ ~response.intact)
    THEN [threw |-> TRUE, xmlContent |-> <<>>]
    ELSE [threw |-> FALSE, xmlContent |-> response.xml]

\* What the await of fetchPriceFileUrls() may bring.
ListingResults == {fetchPriceFileUrls(response) : response \in ListingResponses}

\* What the await of downloadPriceFile(url) may bring.
DownloadResults == {downloadPriceFile(response) : response \in DownloadResponses}

(***************************************************************************)
(* The cache and the requests.                                              *)
(***************************************************************************)
\* 1000 * 60 * 60 ms
CACHE_DURATION_MS == 1000 * 60 * 60

\* The requests that may be in progress at the same time.
Requests == {"r1", "r2"}

\* No JSON body yet.
NoResponse == [success |-> FALSE, products |-> <<>>, source |-> "", error |-> FALSE]

\* No pure function is under check.
NoArg == [fn |-> "none"]
NoOut == [ready |-> FALSE]

\* A request slot with no GET in progress.
IdleCall ==
  [pc |-> "idle",            \* idle, fetchUrls, download, responded
   skipCrawl |-> FALSE,      \* GET: ?fallback=true
   filesToProcess |-> <<>>,  \* crawlShufersal: urls.slice(0, 5)
   i |-> 0,                  \* crawlShufersal: loop index
   successCount |-> 0,       \* crawlShufersal
   items |-> <<>>,           \* crawlShufersal: result.items
   success |-> FALSE,        \* crawlShufersal: result.success
   error |-> FALSE,          \* crawlShufersal: result.error is set
   threw |-> FALSE,          \* the awaited promise rejected
   crawled |-> FALSE,        \* history: this GET called crawlShufersal
   failed |-> FALSE,         \* history: a download or decompression failed
   yielded |-> FALSE,        \* history: a file yielded at least one record
   response |-> NoResponse]  \* GET: the JSON body

\* The module as loaded: an empty cache, no crawl yet, no request.
InitEngine ==
  /\ priceCache = <<>>
  /\ lastCrawlTime = Null
  /\ now = 0
  /\ ticks = 0
  /\ call = [r \in Requests |-> IdleCall]
  /\ snapshotItems = <<>>

Init ==
  /\ InitEngine
  /\ arg = NoArg
  /\ out = NoOut

\* Mutant of cacheFresh: a cache exactly CACHE_DURATION_MS old still counts as fresh.
cacheFreshInclusive(cache, crawlTime, t) ==
  /\ crawlTime # Null
  /\ t - crawlTime <= CACHE_DURATION_MS
  /\ Cardinality(DOMAIN cache) > 0

\* The condition of the cache check of fetchAllPrices.
cacheFresh(cache, crawlTime, t) ==
  /\ crawlTime # Null
  /\ t - crawlTime < CACHE_DURATION_MS
  /\ Cardinality(DOMAIN cache) > 0

(***************************************************************************)
(* crawlShufersal, between its await points.                                *)
(***************************************************************************)
\* Mutant of crawlCatch: no outer try/catch, the error rejects the crawl's promise.
crawlRethrow(c) ==
  [c EXCEPT !.pc = "crawlSettled", !.threw = TRUE]

\* The outer catch: result.error is set and the result, success = false, returned.
crawlCatch(c) ==
  [c EXCEPT !.pc = "crawlSettled", !.error = TRUE, !.success = FALSE]

\* After the loop: deduplicate, set result.success, return.
crawlFinish(c) ==
  LET unique == uniqueItemsOf(c.items, <<>>)
  IN  [c EXCEPT !.pc = "crawlSettled",
                !.items = unique,
                !.success = c.successCount > 0 /\ Len(unique) > 0]

\* The loop test: download the next file, or leave the loop.
crawlLoop(c) ==
  IF c.i < Len(c.filesToProcess) THEN [c EXCEPT !.pc = "download"] ELSE crawlFinish(c)

\* From the start of the try block, once fetchPriceFileUrls has settled.
crawlAfterUrls(c, listing) ==
  IF listing.threw \/ Len(listing.urls) = 0
    THEN crawlCatch(c)
    ELSE crawlLoop([c EXCEPT !.filesToProcess = slice0(listing.urls, 5), !.i = 0])

\* Mutant of fileCatch: no inner try/catch, a failed file ends in the outer catch.
fileCatchAbort(c) == crawlCatch([c EXCEPT !.failed = TRUE])

\* The inner catch: log, go on with the next file.
fileCatch(c) ==
  crawlLoop([c EXCEPT !.i = c.i + 1, !.failed = TRUE])

\* The try block of the loop body from line 164 on, parseXMLPrices having
\* returned `items`.
fileParsed(c, items) ==
  crawlLoop([c EXCEPT
    !.items = IF Len(items) > 0 THEN c.items \o items ELSE c.items,
    !.successCount = IF Len(items) > 0 THEN c.successCount + 1 ELSE c.successCount,
    !.yielded = c.yielded \/ Len(items) > 0,
    !.i = c.i + 1])

\* The loop body, once downloadPriceFile has settled.
crawlAfterDownload(c, download) ==
  IF download.threw
    THEN fileCatch(c)
    ELSE fileParsed(c, parseXMLPrices(download.xmlContent))

(***************************************************************************)
(* The GET route and fetchAllPrices.                                        *)
(***************************************************************************)
\* The JSON body of a response.
jsonResponse(products, skipCrawl) ==
  [success |-> TRUE,
   products |-> products,
   source |-> IF skipCrawl THEN "fallback" ELSE "crawled",
   error |-> FALSE]

\* The body the catch block of GET sends.
jsonCatchResponse ==
  [success |-> TRUE, products |-> getFallbackProducts, source |-> "fallback",
   error |-> TRUE]

\* GET ?fallback=true: getFallbackProducts, no crawl.
GetFallback(r) ==
  /\ call[r].pc = "idle"
  /\ call' = [call EXCEPT ![r] =
       [IdleCall EXCEPT !.pc = "responded",
                        !.skipCrawl = TRUE,
                        !.response = jsonResponse(getFallbackProducts, TRUE)]]
  /\ UNCHANGED <<priceCache, lastCrawlTime, now, ticks, snapshotItems, aside>>

\* GET, fetchAllPrices: the cache is fresh and is served.
GetCached(r) ==
  /\ call[r].pc = "idle"
  /\ cacheFresh(priceCache, lastCrawlTime, now)
  /\ call' = [call EXCEPT ![r] =
       [IdleCall EXCEPT !.pc = "responded",
                        !.response =
                          jsonResponse(buildProductsFromCache(priceCache, lastCrawlTime),
                                       FALSE)]]
  /\ UNCHANGED <<priceCache, lastCrawlTime, now, ticks, snapshotItems, aside>>

\* GET, fetchAllPrices: no fresh cache; crawlShufersal starts and awaits the
\* listing page.
GetCrawl(r) ==
  /\ call[r].pc = "idle"
  /\ ~cacheFresh(priceCache, lastCrawlTime, now)
  /\ call' = [call EXCEPT ![r] = [IdleCall EXCEPT !.pc = "fetchUrls", !.crawled = TRUE]]
  /\ UNCHANGED <<priceCache, lastCrawlTime, now, ticks, snapshotItems, aside>>

\* Mutant of AfterCrawl: a failed crawl is cached too, as a snapshot without prices.
AfterCrawlCachingFailure(r, c) ==
  IF c.threw
    THEN /\ call' = [call EXCEPT ![r] =
                      [c EXCEPT !.pc = "responded", !.response = jsonCatchResponse]]
         /\ UNCHANGED <<priceCache, lastCrawlTime, snapshotItems>>
    ELSE /\ priceCache' = rebuildCache(priceCache, IF c.success THEN c.items ELSE <<>>)
         /\ lastCrawlTime' = now
         /\ snapshotItems' = IF c.success THEN c.items ELSE <<>>
         /\ call' = [call EXCEPT ![r] =
                      [c EXCEPT !.pc = "responded",
                                !.response =
                                  jsonResponse(
                                    IF c.success
                                      THEN buildProductsFromCache(priceCache', lastCrawlTime')
                                      ELSE getFallbackProducts,
                                    FALSE)]]

\* fetchAllPrices from line 112 on, and GET after it, for the call whose crawl has
\* just settled in state c.  crawlShufersal touches nothing but its own locals
\* after its last await, so its return and this continuation are taken as one step.
AfterCrawl(r, c) ==
  IF c.threw
    THEN /\ call' = [call EXCEPT ![r] =
                      [c EXCEPT !.pc = "responded", !.response = jsonCatchResponse]]
         /\ UNCHANGED <<priceCache, lastCrawlTime, snapshotItems>>
    ELSE IF ~c.success
      THEN /\ call' = [call EXCEPT ![r] =
                        [c EXCEPT !.pc = "responded",
                                  !.response = jsonResponse(getFallbackProducts, FALSE)]]
           /\ UNCHANGED <<priceCache, lastCrawlTime, snapshotItems>>
      ELSE /\ priceCache' = rebuildCache(priceCache, c.items)
           /\ lastCrawlTime' = now
           /\ snapshotItems' = c.items
           /\ call' = [call EXCEPT ![r] =
                        [c EXCEPT !.pc = "responded",
                                  !.response =
                                    jsonResponse(
                                      buildProductsFromCache(priceCache', lastCrawlTime'),
                                      FALSE)]]

\* A step of the crawl of r that leaves it in state c: either it awaits the next
\* download, or the crawl has settled and fetchAllPrices goes on.
CrawlStep(r, c) ==
  IF c.pc = "crawlSettled"
    THEN AfterCrawl(r, c)
    ELSE /\ call' = [call EXCEPT ![r] = c]
         /\ UNCHANGED <<priceCache, lastCrawlTime, snapshotItems>>

\* The listing request settles.
FetchUrlsSettled(r) ==
  /\ call[r].pc = "fetchUrls"
  /\ \E listing \in ListingResults :
       CrawlStep(r, crawlAfterUrls(call[r], listing))
  /\ UNCHANGED <<now, ticks, aside>>

\* The download of filesToProcess[i] settles.
DownloadSettled(r) ==
  /\ call[r].pc = "download"
  /\ \E download \in DownloadResults :
       CrawlStep(r, crawlAfterDownload(call[r], download))
  /\ UNCHANGED <<now, ticks, aside>>

\* The response is sent; the slot is free for the next request.
Respond(r) ==
  /\ call[r].pc = "responded"
  /\ call' = [call EXCEPT ![r] = IdleCall]
  /\ UNCHANGED <<priceCache, lastCrawlTime, now, ticks, snapshotItems, aside>>

\* Time passes: one millisecond, or one millisecond short of the cache duration.
Tick ==
  /\ ticks < MaxTicks
  /\ \E d \in {1, CACHE_DURATION_MS - 1} : now' = now + d
  /\ ticks' = ticks + 1
  /\ UNCHANGED <<priceCache, lastCrawlTime, call, snapshotItems, aside>>

Next ==
  \/ \E r \in Requests : GetFallback(r)
  \/ \E r \in Requests : GetCached(r)
  \/ \E r \in Requests : GetCrawl(r)
  \/ \E r \in Requests : FetchUrlsSettled(r)
  \/ \E r \in Requests : DownloadSettled(r)
  \/ \E r \in Requests : Respond(r)
  \/ Tick

Spec == Init /\ [][Next]_vars

(***************************************************************************)
(* getPriceRating on its own.                                               *)
(***************************************************************************)
\* Prices tried, in agorot.
MaxRatingPrice == 9

RatingArgs ==
  [price : 0..MaxRatingPrice, lowPrice : 0..MaxRatingPrice, highPrice : 0..MaxRatingPrice]

InitRating ==
  /\ InitEngine
  /\ arg \in RatingArgs
  /\ out = NoOut

\* Both copies of getPriceRating are applied to the argument.
Rate ==
  /\ ~out.ready
  /\ out' = [ready |-> TRUE,
             service |-> getPriceRating(arg.price, arg),
             page |-> pageGetPriceRating(arg.price, arg)]
  /\ UNCHANGED <<priceCache, lastCrawlTime, now, ticks, call, snapshotItems, arg>>

NextRating == Rate

SpecRating == InitRating /\ [][NextRating]_vars

(***************************************************************************)
(* Properties.                                                              *)
(***************************************************************************)
\* crawlShufersal of request r is in flight.
InFlight(r) == call[r].pc \in {"fetchUrls", "download"}

\* Request r has its response, produced by fetchAllPrices.
Served(r) == call[r].pc = "responded" /\ ~call[r].skipCrawl

\* Request r starts fetchAllPrices in this step.
StartsFetchAllPrices(r) ==
  call[r].pc = "idle" /\ call'[r].pc # "idle" /\ ~call'[r].skipCrawl

\* The crawl of request r settles in this step.
CrawlSettles(r) == InFlight(r) /\ call'[r].pc = "responded"

\* The ids of a Product list, in order.
IdsOf(products) == [k \in 1..Len(products) |-> products[k].id]

\* The three prices of a Product.
PricesOf(product) ==
  [average |-> product.averagePrice, low |-> product.lowPrice, high |-> product.highPrice]

\* C1: Single-flight refresh: at no time are two crawls outstanding, however many
\* fetchAllPrices calls find the cache empty or stale.
SingleFlight ==
  Cardinality({r \in Requests : InFlight(r)}) <= 1

\* C2: Degraded fallback: after a failed crawl, fetchAllPrices answers with a
\* non-empty list of the static fallback estimates, marked as fallback-sourced.
DegradedIsFallbackSourced ==
  \A r \in Requests :
    Served(r) /\ call[r].crawled /\ ~call[r].success =>
      /\ Len(call[r].response.products) > 0
      /\ \A k \in 1..Len(call[r].response.products) :
           PricesOf(call[r].response.products[k]) = getFallbackPrice(catalog[k].id)
      /\ call[r].response.source = "fallback"

\* C3: No failure surfaces as an exception: whatever the listing request, the
\* downloads and the records do, fetchAllPrices returns, never throws, one Product
\* per catalog entry in catalog order.
NoExceptionSurfaces ==
  \A r \in Requests :
    /\ ~call[r].threw
    /\ Served(r) =>
         /\ ~call[r].response.error
         /\ IdsOf(call[r].response.products) = IdsOf(catalog)

\* C3 witness: one request answered after its listing request failed, another after
\* a failed download and a file with a malformed record.
NoExceptionSurfacesWitness ==
  \E r1, r2 \in Requests :
    /\ Served(r1) /\ call[r1].error
    /\ Served(r2) /\ call[r2].failed /\ call[r2].yielded

\* C4: TTL hit: a fetchAllPrices call made less than CACHE_DURATION_MS after the
\* last successful crawl, the cache being populated, is answered from the cache
\* and starts no crawl; once CACHE_DURATION_MS or more has elapsed, it starts a crawl.
TTLHit ==
  [][\A r \in Requests :
       StartsFetchAllPrices(r) /\ lastCrawlTime # Null =>
         IF now - lastCrawlTime < CACHE_DURATION_MS /\ DOMAIN priceCache # {}
           THEN /\ call'[r].pc = "responded"
                /\ ~call'[r].crawled
                /\ call'[r].response.products =
                     buildProductsFromCache(priceCache, lastCrawlTime)
                /\ UNCHANGED <<priceCache, lastCrawlTime>>
           ELSE /\ call'[r].pc = "fetchUrls"
                /\ call'[r].crawled]_vars

\* C4 witness: one request was answered from a cache one millisecond short of the
\* duration; a millisecond later another one starts a crawl.
TTLHitWitness ==
  \E r1, r2 \in Requests :
    /\ Served(r1) /\ ~call[r1].crawled
    /\ call[r2].pc = "fetchUrls"
    /\ lastCrawlTime # Null
    /\ now - lastCrawlTime = CACHE_DURATION_MS

\* C5, as claimed: a read whose refresh fails while a previous snapshot exists is
\* served from that snapshot.
StaleServedOnFailure ==
  [][\A r \in Requests :
       /\ CrawlSettles(r) /\ ~call'[r].success
       /\ DOMAIN priceCache # {}
       /\ now - lastCrawlTime >= CACHE_DURATION_MS
       => call'[r].response.products =
           buildProductsFromCache(priceCache, lastCrawlTime)]_vars

\* C5, amended: once the TTL has elapsed the next read starts a refresh; if the
\* refresh fails while a previous snapshot exists, the read is served the static
\* fallback estimates, and the snapshot and lastCrawlTime stay as they were.
StaleFailureServesFallback ==
  [][\A r \in Requests :
       /\ StartsFetchAllPrices(r) /\ lastCrawlTime # Null
            /\ now - lastCrawlTime >= CACHE_DURATION_MS =>
            call'[r].pc = "fetchUrls"
       /\ CrawlSettles(r) /\ ~call'[r].success /\ DOMAIN priceCache # {} =>
            /\ \A k \in 1..Len(catalog) :
                 /\ call'[r].response.products[k].id = catalog[k].id
                 /\ PricesOf(call'[r].response.products[k])
                      = getFallbackPrice(catalog[k].id)
                 /\ call'[r].response.products[k].lastUpdated = Null
            /\ UNCHANGED <<priceCache, lastCrawlTime>>]_vars

\* C5 witness: a request whose crawl started on a stale snapshot and failed; the
\* snapshot holds crawled prices that differ from the estimates served.
StaleFailureWitness ==
  \E r \in Requests :
    /\ Served(r) /\ call[r].crawled /\ ~call[r].success
    /\ lastCrawlTime # Null
    /\ now - lastCrawlTime >= CACHE_DURATION_MS
    /\ \E k \in 1..Len(catalog) :
         PricesOf(buildProductsFromCache(priceCache, lastCrawlTime)[k])
           # PricesOf(call[r].response.products[k])

\* C6: Atomic snapshot replacement: the cache a call may read is empty, or holds
\* one entry per catalog product, all matched from the items of one crawl.
AtomicSnapshot ==
  \/ DOMAIN priceCache = {} /\ lastCrawlTime = Null
  \/ /\ DOMAIN priceCache = catalogIds
     /\ \A k \in 1..Len(catalog) :
          priceCache[catalog[k].id] = findPricesForProduct(catalog[k], snapshotItems)

\* C6 witness: a request is answered from the cache while another request's crawl,
\* started before the cache was filled, is still downloading.
AtomicSnapshotWitness ==
  \E r1, r2 \in Requests :
    /\ call[r1].pc = "download"
    /\ Served(r2) /\ ~call[r2].crawled
    /\ \E k \in 1..Len(catalog) : cacheGet(priceCache, catalog[k].id) # <<>>

\* C7: Download fault isolation: a file whose download or decompression fails does
\* not stop the crawl; every selected file is tried, and the crawl succeeds exactly
\* when at least one file yielded records.
DownloadFaultIsolation ==
  \A r \in Requests :
    /\ call[r].pc = "download" =>
         ~call[r].error /\ call[r].i < Len(call[r].filesToProcess)
    /\ Served(r) /\ call[r].filesToProcess # <<>> =>
         /\ call[r].i = Len(call[r].filesToProcess)
         /\ ~call[r].error
         /\ call[r].success <=> call[r].yielded
         /\ call[r].yielded => call[r].items # <<>>

\* C7 witness: a crawl of two files, one of which failed, reported success.
DownloadFaultIsolationWitness ==
  \E r \in Requests :
    /\ Served(r)
    /\ Len(call[r].filesToProcess) = 2
    /\ call[r].failed
    /\ call[r].success

\* C8: getProducts(useFallback = true) starts no crawl, leaves priceCache and
\* lastCrawlTime as they are, and returns one Product per catalog entry with the
\* static estimates of its id, whatever the cache holds.
FallbackOnlyReads ==
  [][\A r \in Requests :
       call[r].pc = "idle" /\ call'[r].skipCrawl =>
         /\ call'[r].pc = "responded"
         /\ ~call'[r].crawled
         /\ UNCHANGED <<priceCache, lastCrawlTime>>
         /\ IdsOf(call'[r].response.products) = IdsOf(catalog)
         /\ \A k \in 1..Len(catalog) :
              PricesOf(call'[r].response.products[k])
                = getFallbackPrice(catalog[k].id)]_vars

\* C8 witness: a fallback request answered while the cache is fresh and holds
\* crawled prices that differ from the estimates.
FallbackOnlyReadsWitness ==
  \E r \in Requests :
    /\ call[r].pc = "responded" /\ call[r].skipCrawl
    /\ cacheFresh(priceCache, lastCrawlTime, now)
    /\ \E k \in 1..Len(catalog) :
         PricesOf(buildProductsFromCache(priceCache, lastCrawlTime)[k])
           # PricesOf(call[r].response.products[k])

\* C9: NoUsableData: a crawl that parsed records of which none matches a catalog
\* product is treated like a failed crawl: fallback-sourced Products, no live
\* snapshot.
NoUsableDataIsFullFallback ==
  [][\A r \in Requests :
       /\ CrawlSettles(r)
       /\ call'[r].items # <<>>
       /\ \A k \in 1..Len(catalog) :
            findPricesForProduct(catalog[k], call'[r].items) = <<>>
       => /\ call'[r].response.source = "fallback"
          /\ \A k \in 1..Len(catalog) :
               call'[r].response.products[k].lastUpdated = Null
          /\ UNCHANGED <<priceCache, lastCrawlTime>>]_vars

\* C10: getPriceRating returns "average" for every price when highPrice equals
\* lowPrice.
ZeroRangeIsAverage ==
  out.ready /\ arg.highPrice = arg.lowPrice =>
    out.service = "average" /\ out.page = "average"

\* C10 witness: a product with highPrice = lowPrice rated at a price above them.
ZeroRangeIsAverageWitness ==
  /\ out.ready
  /\ arg.highPrice = arg.lowPrice
  /\ arg.price > arg.highPrice

(***************************************************************************)
(* getPriceRating: order and thresholds.                                    *)
(***************************************************************************)
\* The ratings by severity: great < good < average < high < expensive.
severity(rating) ==
  CASE rating = "great" -> 0
    [] rating = "good" -> 1
    [] rating = "average" -> 2
    [] rating = "high" -> 3
    [] rating = "expensive" -> 4

\* C11: for a product with highPrice > lowPrice, a price that is not lower gets a
\* rating that is not less severe, prices below lowPrice and above highPrice
\* included.
RatingMonotone ==
  out.ready /\ arg.highPrice > arg.lowPrice =>
    \A p \in 0..(2 * MaxRatingPrice) :
      p >= arg.price =>
        /\ severity(getPriceRating(p, arg)) >= severity(out.service)
        /\ severity(pageGetPriceRating(p, arg)) >= severity(out.page)

\* C11 witness: a price below lowPrice is rated great while a price above highPrice
\* of the same product is rated expensive.
RatingMonotoneWitness ==
  /\ out.ready
  /\ arg.highPrice > arg.lowPrice
  /\ arg.price < arg.lowPrice
  /\ out.service = "great"
  /\ arg.highPrice < MaxRatingPrice
  /\ getPriceRating(MaxRatingPrice, arg) = "expensive"

\* The arguments of the threshold check: the small grid, and every price from 9.90
\* to 20.10 for the product with lowPrice 10 and highPrice 20.
ThresholdArgs ==
  RatingArgs \cup [price : 990..2010, lowPrice : {1000}, highPrice : {2000}]

InitThreshold ==
  /\ InitEngine
  /\ arg \in ThresholdArgs
  /\ out = NoOut

SpecThreshold == InitThreshold /\ [][NextRating]_vars

\* The rating the thresholds 0.10 / 0.35 / 0.65 / 0.85, inclusive on the cheaper
\* side, give to position = num / range, for range > 0.
bandOf(num, range) ==
  IF 100 * num <= 10 * range THEN "great"
  ELSE IF 100 * num <= 35 * range THEN "good"
  ELSE IF 100 * num <= 65 * range THEN "average"
  ELSE IF 100 * num <= 85 * range THEN "high"
  ELSE "expensive"

\* C12: with position = (price - low) / (high - low), position <= 0.10 is great,
\* <= 0.35 good, <= 0.65 average, <= 0.85 high, above it expensive; for low 10 and
\* high 20: 11 is great, 11.01 good, 16.5 average, 16.51 high, 18.5 high and
\* 18.51 expensive.
ThresholdsInclusive ==
  out.ready /\ arg.highPrice > arg.lowPrice =>
    /\ out.service = bandOf(arg.price - arg.lowPrice, arg.highPrice - arg.lowPrice)
    /\ out.page = out.service
    /\ arg.lowPrice = 1000 /\ arg.highPrice = 2000 =>
         /\ arg.price = 1100 => out.service = "great"
         /\ arg.price = 1101 => out.service = "good"
         /\ arg.price = 1650 => out.service = "average"
         /\ arg.price = 1651 => out.service = "high"
         /\ arg.price = 1850 => out.service = "high"
         /\ arg.price = 1851 => out.service = "expensive"

\* C12 witness: the price 16.5, exactly on the 0.65 threshold of the product with
\* low 10 and high 20, has been rated average.
ThresholdsInclusiveWitness ==
  /\ out.ready
  /\ arg = [price |-> 1650, lowPrice |-> 1000, highPrice |-> 2000]
  /\ out.service = "average"

(***************************************************************************)
(* calculatePriceStats and buildProductsFromCache on their own.             *)
(***************************************************************************)
\* Longest price list tried.
MaxStatsLen == 3

\* Prices tried, in agorot: negative, zero, below half a tenth, on a tenth, half
\* way between two tenths, and a second, higher one.
StatsPrices == {-500, 0, 4, 500, 505, 1500}

\* The StorePrice of the given price.
StorePriceAt(price) == StorePriceOf([itemPrice |-> price, priceUpdateDate |-> <<>>])

\* A price list, and the catalog product whose cache entry it is.
StatsArgs ==
  {[fn |-> "calculatePriceStats",
    id |-> id,
    prices |-> [k \in DOMAIN values |-> StorePriceAt(values[k])]] :
     values \in SeqsUpTo(StatsPrices, MaxStatsLen), id \in catalogIds}

\* priceCache with the given list for the product id and no price for the others.
cacheWith(id, prices) == [x \in catalogIds |-> IF x = id THEN prices ELSE <<>>]

InitStats ==
  /\ InitEngine
  /\ arg \in StatsArgs
  /\ out = NoOut

\* calculatePriceStats is applied to the list, and buildProductsFromCache to the
\* cache that holds it; getFallbackProducts is called next to them.
Summarize ==
  /\ ~out.ready
  /\ out' = [ready |-> TRUE,
             stats |-> calculatePriceStats(arg.prices),
             products |-> buildProductsFromCache(cacheWith(arg.id, arg.prices), now),
             fallback |-> getFallbackProducts]
  /\ UNCHANGED <<priceCache, lastCrawlTime, now, ticks, call, snapshotItems, arg>>

NextStats == Summarize

SpecStats == InitStats /\ [][NextStats]_vars

\* The indexes of the strictly positive prices of a list.
positiveAt(prices) == {k \in 1..Len(prices) : prices[k].price > 0}

\* The sum of the prices at the given indexes.
RECURSIVE sumAt(_, _)
sumAt(prices, indexes) ==
  IF indexes = {} THEN 0
  ELSE LET k == CHOOSE j \in indexes : TRUE
       IN  prices[k].price + sumAt(prices, indexes \ {k})

\* r is numer / denom (agorot, denom > 0) rounded to one decimal place of a
\* shekel, a half rounded away from zero; numer >= 0.
isRoundedToTenth(r, numer, denom) ==
  /\ r % 10 = 0
  /\ 2 * (numer - r * denom) < 10 * denom
  /\ 2 * (r * denom - numer) <= 10 * denom

\* C13: calculatePriceStats returns {0, 0, 0} for the empty list and for a list
\* without a strictly positive price.
NoPositivePriceIsZeroSummary ==
  out.ready /\ positiveAt(arg.prices) = {} =>
    out.stats = [averagePrice |-> 0, lowPrice |-> 0, highPrice |-> 0]

\* C13 witness: a list of two prices, none positive and one negative, has been
\* summarized.
NoPositivePriceWitness ==
  /\ out.ready
  /\ Len(arg.prices) = 2
  /\ positiveAt(arg.prices) = {}
  /\ arg.prices[1].price < 0

ordered(p) == p.lowPrice <= p.averagePrice /\ p.averagePrice <= p.highPrice

NoZeroPriceExposed ==
  out.ready /\ (\A k \in 1..Len(arg.prices) : arg.prices[k].price > 0) =>
    \A k \in 1..Len(out.products) :
      /\ out.products[k].averagePrice > 0
      /\ out.products[k].lowPrice > 0
      /\ out.products[k].highPrice > 0

(***************************************************************************)
(* The deduplication of crawlShufersal on its own.                          *)
(***************************************************************************)
\* Longest record list tried.
MaxDedupeLen == 3

\* A RawStoreItem with the given code, name and price.
rawItem(itemCode, itemName, itemPrice) ==
  [itemCode |-> itemCode,
   itemName |-> itemName,
   itemPrice |-> itemPrice,
   unitOfMeasure |-> <<>>,
   quantity |-> 100,
   unitOfMeasurePrice |-> Null,
   priceUpdateDate |-> <<>>]

\* Records tried: the codes "1" and "2", the names "a" and "b", the prices 1.00
\* and 2.00.
DedupeItems ==
  {rawItem(code, name, price) :
     code \in {<<49>>, <<50>>}, name \in {<<97>>, <<98>>}, price \in {100, 200}}

DedupeArgs ==
  {[fn |-> "uniqueItems", items |-> items] : items \in SeqsUpTo(DedupeItems, MaxDedupeLen)}

InitDedupe ==
  /\ InitEngine
  /\ arg \in DedupeArgs
  /\ out = NoOut

\* The uniqueItems loop of crawlShufersal and Array.from(uniqueItems.values()).
Dedupe ==
  /\ ~out.ready
  /\ out' = [ready |-> TRUE, items |-> uniqueItemsOf(arg.items, <<>>)]
  /\ UNCHANGED <<priceCache, lastCrawlTime, now, ticks, call, snapshotItems, arg>>

NextDedupe == Dedupe

SpecDedupe == InitDedupe /\ [][NextDedupe]_vars

\* The records of a list, as a set.
recordsOf(items) == {items[k] : k \in 1..Len(items)}

\* The permutations of 1..n.
permutations(n) ==
  {f \in [1..n -> 1..n] : \A i, j \in 1..n : f[i] = f[j] => i = j}

\* C17: for each itemCode among the collected records exactly one record is kept,
\* one of the collected records with that code, and its price is the lowest price
\* among them.
KeepsLowestPerCode ==
  out.ready =>
    /\ recordsOf(out.items) \subseteq recordsOf(arg.items)
    /\ \A k \in 1..Len(arg.items) :
         /\ Cardinality({j \in 1..Len(out.items) :
                           out.items[j].itemCode = arg.items[k].itemCode}) = 1
         /\ \A j \in 1..Len(out.items) :
              out.items[j].itemCode = arg.items[k].itemCode =>
                out.items[j].itemPrice <= arg.items[k].itemPrice

\* C17 witness: three records, the third with the code of the first and a lower
\* price; two records are kept.
KeepsLowestPerCodeWitness ==
  /\ out.ready
  /\ Len(arg.items) = 3
  /\ arg.items[3].itemCode = arg.items[1].itemCode
  /\ arg.items[3].itemPrice < arg.items[1].itemPrice
  /\ arg.items[2].itemCode # arg.items[1].itemCode
  /\ Len(out.items) = 2
  /\ out.items[1] = arg.items[3]

\* C18: deduplication gives the same records for every permutation of its input.
DedupeOrderIndependent ==
  out.ready =>
    \A f \in permutations(Len(arg.items)) :
      recordsOf(uniqueItemsOf([k \in 1..Len(arg.items) |-> arg.items[f[k]]], <<>>))
        = recordsOf(out.items)

(***************************************************************************)
(* findPricesForProduct on its own.                                         *)
(***************************************************************************)
\* Longest record list tried: one more than the five fuzzy matches kept.
MaxMatchLen == 6

\* Records tried.  The first carries a barcode of catalog product 1 and the name
\* "Cucumber", a search term of product 2; the second has the name "TOMATO"; the
\* code of the third, "xtomato", contains a search term of product 1; the fourth
\* matches nothing.
MatchItems ==
  {rawItem(<<50, 48, 48, 48, 48, 49, 48, 48, 48, 48, 48, 48, 50>>,
           <<67, 117, 99, 117, 109, 98, 101, 114>>, 590),
   rawItem(<<55, 50, 57, 48, 48, 48, 48, 48, 48, 48, 48, 48, 49>>,
           <<84, 79, 77, 65, 84, 79>>, 300),
   rawItem(<<120, 116, 111, 109, 97, 116, 111>>, <<90>>, 700),
   rawItem(<<55, 50, 57, 48, 48, 49, 49, 49, 49, 49, 49, 49, 49>>,
           <<83, 104, 97, 109, 112, 111, 111>>, 1290)}

\* The catalog products tried: Tomatoes and Cucumbers.
MatchProducts == {productCatalog[1], productCatalog[2]}

MatchArgs ==
  {[fn |-> "findPricesForProduct", product |-> product, allItems |-> allItems] :
     product \in MatchProducts, allItems \in SeqsUpTo(MatchItems, MaxMatchLen)}

InitMatch ==
  /\ InitEngine
  /\ arg \in MatchArgs
  /\ out = NoOut

Match ==
  /\ ~out.ready
  /\ out' = [ready |-> TRUE, prices |-> findPricesForProduct(arg.product, arg.allItems)]
  /\ UNCHANGED <<priceCache, lastCrawlTime, now, ticks, call, snapshotItems, arg>>

NextMatch == Match

SpecMatch == InitMatch /\ [][NextMatch]_vars

\* The indexes of the records whose itemCode is one of the barcodes.
exactAt(product, allItems) ==
  {k \in 1..Len(allItems) :
     \E b \in 1..Len(product.barcodes) : allItems[k].itemCode = product.barcodes[b]}

\* The indexes of the records that match a search term: the itemCode equals or
\* contains it, or the lower-cased itemName contains it lower-cased.
fuzzyAt(product, allItems) ==
  {k \in 1..Len(allItems) :
     \E t \in 1..Len(product.searchTerms) :
       \/ allItems[k].itemCode = product.searchTerms[t]
       \/ includes(allItems[k].itemCode, product.searchTerms[t])
       \/ includes(toLowerCase(allItems[k].itemName),
                   toLowerCase(product.searchTerms[t]))}

\* The n-th smallest member of a set of indexes.
nthOf(indexes, n) ==
  CHOOSE i \in indexes : Cardinality({m \in indexes : m < i}) = n - 1

\* C19: when a record's itemCode is one of the barcodes, findPricesForProduct
\* returns exactly the prices of the records whose itemCode is one of the
\* barcodes, each once, and nothing of the fuzzy matches.
ExactMatchPrecedence ==
  out.ready /\ exactAt(arg.product, arg.allItems) # {} =>
    /\ Len(out.prices) = Cardinality(exactAt(arg.product, arg.allItems))
    /\ \A j \in 1..Len(out.prices) :
         Cardinality({i \in 1..Len(out.prices) : out.prices[i] = out.prices[j]})
           = Cardinality({k \in exactAt(arg.product, arg.allItems) :
                            StorePriceOf(arg.allItems[k]) = out.prices[j]})

\* C19 witness: a list with a barcode match and, elsewhere, a fuzzy match of the
\* same product; one price is returned.
ExactMatchPrecedenceWitness ==
  /\ out.ready
  /\ Cardinality(exactAt(arg.product, arg.allItems)) = 1
  /\ fuzzyAt(arg.product, arg.allItems) \ exactAt(arg.product, arg.allItems) # {}
  /\ Len(out.prices) = 1

\* C20: when no barcode matches, findPricesForProduct returns the prices of the
\* first five records, in encounter order, that match a search term, and of no
\* other record.
FuzzyFirstFive ==
  out.ready /\ exactAt(arg.product, arg.allItems) = {} =>
    /\ Len(out.prices) =
         IF Cardinality(fuzzyAt(arg.product, arg.allItems)) < 5
           THEN Cardinality(fuzzyAt(arg.product, arg.allItems)) ELSE 5
    /\ \A j \in 1..Len(out.prices) :
         out.prices[j] =
           StorePriceOf(arg.allItems[nthOf(fuzzyAt(arg.product, arg.allItems), j)])

\* C20 witness: six records match a search term, none a barcode; five prices are
\* returned and the sixth match, with another price than the fifth, is left out.
FuzzyFirstFiveWitness ==
  /\ out.ready
  /\ exactAt(arg.product, arg.allItems) = {}
  /\ Cardinality(fuzzyAt(arg.product, arg.allItems)) = 6
  /\ arg.allItems[6].itemPrice # arg.allItems[5].itemPrice
  /\ Len(out.prices) = 5


(***************************************************************************)
(* parseXMLPrices on its own: a data file of up to MaxParseLen blocks is     *)
(* parsed once.                                                             *)
(***************************************************************************)
MaxParseLen == 3

\* ItemCode "  " (blank once trimmed), ItemName "Soap", ItemPrice "3.50"
ItemBlankCode ==
  << [tag |-> "ItemCode", text |-> <<32, 32>>],
     [tag |-> "ItemName", text |-> <<83, 111, 97, 112>>],
     [tag |-> "ItemPrice", text |-> <<51, 46, 53, 48>>] >>

\* ItemCode 7290000000017, ItemName "Salt", ItemPrice "0"
ItemZeroPrice ==
  << [tag |-> "ItemCode", text |-> <<55, 50, 57, 48, 48, 48, 48, 48, 48, 48, 48, 49, 55>>],
     [tag |-> "ItemName", text |-> <<83, 97, 108, 116>>],
     [tag |-> "ItemPrice", text |-> <<48>>] >>

\* ItemBarcode 7290000000024, ItemNm "Rice", Price "2.50", ItemUpdateDate 2024-01-16:
\* a record written with the second tag name of each field
ItemAliased ==
  << [tag |-> "ItemBarcode", text |-> <<55, 50, 57, 48, 48, 48, 48, 48, 48, 48, 48, 50, 52>>],
     [tag |-> "ItemNm", text |-> <<82, 105, 99, 101>>],
     [tag |-> "Price", text |-> <<50, 46, 53, 48>>],
     [tag |-> "UnitQty", text |-> <<107, 103>>],
     [tag |-> "QtyInPackage", text |-> <<50>>],
     [tag |-> "ItemUpdateDate", text |-> <<50, 48, 50, 52, 45, 48, 49, 45, 49, 54>>] >>

\* The <Item> blocks a data file is made of.
ParseBlocks ==
  {ItemTomato, ItemShampoo, ItemNoPrice, ItemBlankCode, ItemZeroPrice, ItemAliased}

InitParse ==
  /\ InitEngine
  /\ arg \in {[fn |-> "parseXMLPrices", xml |-> xml] :
                xml \in SeqsUpTo(ParseBlocks, MaxParseLen)}
  /\ out = NoOut

Parse ==
  /\ ~out.ready
  /\ out' = [ready |-> TRUE, items |-> parseXMLPrices(arg.xml)]
  /\ UNCHANGED <<priceCache, lastCrawlTime, now, ticks, call, snapshotItems, arg>>

NextParse == Parse

SpecParse == InitParse /\ [][NextParse]_vars

\* The parsed price of a block: the number its ItemPrice text starts with, 0 when
\* the element is missing or its text is no number.
parsedPriceOf(itemXml) ==
  IF parseFloat(getTagValue(itemXml, "ItemPrice")).nan
    THEN 0
    ELSE parseFloat(getTagValue(itemXml, "ItemPrice")).value

\* The indexes of the blocks with a non-empty ItemCode and a parsed price above 0.
validAt(xml) ==
  {k \in 1..Len(xml) :
     getTagValue(xml[k], "ItemCode") # <<>> /\ parsedPriceOf(xml[k]) > 0}

\* C21: parseXMLPrices emits one record for each block that has a non-empty
\* ItemCode and a parsed price above zero and none for any other block; the
\* records are in the order of their blocks, each with the code, name and price
\* of its own block whatever the other blocks are.
EmitsValidBlocksInOrder ==
  out.ready =>
    /\ Len(out.items) = Cardinality(validAt(arg.xml))
    /\ \A j \in 1..Len(out.items) :
         /\ out.items[j].itemCode
              = getTagValue(arg.xml[nthOf(validAt(arg.xml), j)], "ItemCode")
         /\ out.items[j].itemName
              = getTagValue(arg.xml[nthOf(validAt(arg.xml), j)], "ItemName")
         /\ out.items[j].itemPrice = parsedPriceOf(arg.xml[nthOf(validAt(arg.xml), j)])

\* C21 witness: a file of three blocks whose second block has no usable price;
\* the first and the third block, of different codes, are emitted in that order.
EmitsValidBlocksWitness ==
  /\ out.ready
  /\ Len(arg.xml) = 3
  /\ validAt(arg.xml) = {1, 3}
  /\ Len(out.items) = 2
  /\ out.items[1].itemCode # out.items[2].itemCode
  /\ out.items[1].itemCode = getTagValue(arg.xml[1], "ItemCode")


\* a || b || ... over the tags of one field: the value of the first tag of the
\* list whose element is in the block with a non-empty text, "" when there is none.
RECURSIVE firstAlias(_, _)
firstAlias(itemXml, aliases) ==
  IF aliases = <<>> THEN <<>>
  ELSE orElse(getTagValue(itemXml, Head(aliases)), firstAlias(itemXml, Tail(aliases)))

\* The tag names of each field, in the order they are tried.
CodeAliases      == <<"ItemCode", "ItemBarcode", "Barcode">>
NameAliases      == <<"ItemName", "ItemNm", "ManufacturerItemDescription">>
PriceAliases     == <<"ItemPrice", "Price">>
UnitAliases      == <<"UnitOfMeasure", "UnitQty", "Quantity">>
QuantityAliases  == <<"Quantity", "QtyInPackage">>
UnitPriceAliases == <<"UnitOfMeasurePrice", "UnitPrice">>
DateAliases      == <<"PriceUpdateDate", "ItemUpdateDate">>

\* The record of one block when every field is read through its list of tags.
parseItemAliased(itemXml) ==
  [itemCode |-> firstAlias(itemXml, CodeAliases),
   itemName |-> firstAlias(itemXml, NameAliases),
   itemPrice |-> parseFloatOr(orElse(firstAlias(itemXml, PriceAliases), <<48>>), 0),
   unitOfMeasure |-> firstAlias(itemXml, UnitAliases),
   quantity |-> parseFloatOr(orElse(firstAlias(itemXml, QuantityAliases), <<49>>), 100),
   unitOfMeasurePrice |-> optionalFloat(firstAlias(itemXml, UnitPriceAliases)),
   priceUpdateDate |-> firstAlias(itemXml, DateAliases)]

\* The records of a file when every field is read through its list of tags.
parseXMLPricesAliased(xmlContent) ==
  SelectSeq([k \in 1..Len(xmlContent) |-> parseItemAliased(xmlContent[k])], isPushed)

\* C28 (as claimed; parseXMLPrices of shufersal.ts reads one tag per field):
\* the records parseXMLPrices returns are those obtained by reading the
\* identifier, name, price, unit, quantity and update date of each block from
\* the first tag of the field's list that the block holds.
FieldAliasing ==
  out.ready => out.items = parseXMLPricesAliased(arg.xml)


(***************************************************************************)
(* getFallbackPrice on its own: one id is looked up.                        *)
(***************************************************************************)
\* The ids of the table of getFallbackPrice.
tableIds == {fallbackPrices[k].id : k \in 1..Len(fallbackPrices)}

\* The ids looked up: those of the catalog and of the table, and strings that are
\* no key of the table.
FallbackIds ==
  {productCatalog[k].id : k \in 1..Len(productCatalog)}
    \cup tableIds
    \cup ObjectPrototypeNames
    \cup {"", "0", "01", "36", "x"}

InitFallback ==
  /\ InitEngine
  /\ arg \in {[fn |-> "getFallbackPrice", productId |-> id] : id \in FallbackIds}
  /\ out = NoOut

Lookup ==
  /\ ~out.ready
  /\ out' = [ready |-> TRUE, prices |-> getFallbackPrice(arg.productId)]
  /\ UNCHANGED <<priceCache, lastCrawlTime, now, ticks, call, snapshotItems, arg>>

NextFallback == Lookup

SpecFallback == InitFallback /\ [][NextFallback]_vars

CacheStateInvariant ==
  /\ [](/\ DOMAIN priceCache \subseteq catalogIds
        /\ DOMAIN priceCache = {} <=> lastCrawlTime = Null)
  /\ [][/\ priceCache' # priceCache \/ lastCrawlTime' # lastCrawlTime =>
             \E r \in Requests : CrawlSettles(r) /\ call'[r].success
        /\ \A r \in Requests :
             CrawlSettles(r) /\ call'[r].success =>
               DOMAIN priceCache' = catalogIds /\ lastCrawlTime' = now]_vars

\* C26 witness: a crawl that settled with success once the cache duration had
\* passed: the request is answered from its records, the cache has the catalog
\* ids as keys and lastCrawlTime is the time of that crawl.
CacheStateWitness ==
  \E r \in Requests :
    /\ Served(r) /\ call[r].crawled /\ call[r].success
    /\ DOMAIN priceCache = catalogIds
    /\ lastCrawlTime = now /\ now >= CACHE_DURATION_MS
    /\ call[r].items # <<>>

\* C29: A failed crawl changes nothing: the step in which a crawl settles without
\* success leaves priceCache and lastCrawlTime as they were, whatever they hold,
\* so a cache that was empty or stale before the step is empty or stale after it;
\* and a fetchAllPrices call that finds the cache empty or stale starts a crawl.
FailedCrawlChangesNothing ==
  [][\A r \in Requests :
       /\ CrawlSettles(r) /\ ~call'[r].success =>
            /\ priceCache' = priceCache
            /\ lastCrawlTime' = lastCrawlTime
            /\ ~cacheFresh(priceCache, lastCrawlTime, now) =>
                 ~cacheFresh(priceCache', lastCrawlTime', now')
       /\ StartsFetchAllPrices(r) /\ ~cacheFresh(priceCache, lastCrawlTime, now) =>
            call'[r].crawled /\ call'[r].pc = "fetchUrls"]_vars

\* C29 witness: one request has been answered after its crawl failed on an empty
\* cache, the cache is still empty, and the crawl of another request is in flight.
FailedCrawlWitness ==
  \E r1, r2 \in Requests :
    /\ Served(r1) /\ call[r1].crawled /\ ~call[r1].success
    /\ DOMAIN priceCache = {} /\ lastCrawlTime = Null
    /\ InFlight(r2)


(***************************************************************************)
(* One crawl on its own: a single fetchAllPrices call on the empty cache,   *)
(* with the HTTP requests it issues and the records it parses written down. *)
(***************************************************************************)
\* The listing page links to at most MaxCrawlUrls distinct files.
MaxCrawlUrls == 7

\* Blob names the listing page may link to: files of the full catalog
\* (PriceFull...) and files of updates (Price...).
CrawlUrlPool ==
  << "PriceFull7290027600007-001.gz", "Price7290027600007-002.gz",
     "PriceFull7290027600007-003.gz", "Price7290027600007-004.gz",
     "PriceFull7290027600007-005.gz", "Price7290027600007-006.gz",
     "PriceFull7290027600007-007.gz", "Price7290027600007-008.gz" >>

CrawlUrls == SubSeq(CrawlUrlPool, 1, MaxCrawlUrls)

\* u.includes("PriceFull"), on the names of the pool.
FullCatalogUrls ==
  {"PriceFull7290027600007-001.gz", "PriceFull7290027600007-003.gz",
   "PriceFull7290027600007-005.gz", "PriceFull7290027600007-007.gz"}

\* The first n links in order, every second one with its "&" escaped.
ascending(n) == [k \in 1..n |-> [url |-> CrawlUrls[k], escaped |-> k % 2 = 0]]

\* The first n links in reverse order.
descending(n) == [k \in 1..n |-> [url |-> CrawlUrls[n + 1 - k], escaped |-> FALSE]]

\* The listing pages of the crawl: a failed request, or n links in order, in
\* reverse order, or in order and then again in reverse order.
CrawlListingResponses ==
  {[ok |-> FALSE, matches |-> <<>>]}
    \cup {[ok |-> TRUE, matches |-> ascending(n)] : n \in 0..MaxCrawlUrls}
    \cup {[ok |-> TRUE, matches |-> descending(n)] : n \in 0..MaxCrawlUrls}
    \cup {[ok |-> TRUE, matches |-> ascending(n) \o descending(n)] : n \in 0..MaxCrawlUrls}

\* ItemCode 2000010000002 as ItemTomato, ItemPrice "7.90": the same product in a
\* dearer branch
ItemTomatoDear ==
  << [tag |-> "ItemCode", text |-> <<50, 48, 48, 48, 48, 49, 48, 48, 48, 48, 48, 48, 50>>],
     [tag |-> "ItemName", text |-> <<84, 111, 109, 97, 116, 111>>],
     [tag |-> "ItemPrice", text |-> <<55, 46, 57, 48>>] >>

\* What the await of downloadPriceFile(url) may bring in the crawl: a failure or
\* one of three files.
CrawlDownloadResults ==
  {downloadPriceFile(response) :
     response \in {[ok |-> FALSE, gzip |-> FALSE, intact |-> TRUE, xml |-> <<>>]}
                    \cup [ok : {TRUE}, gzip : {TRUE}, intact : {TRUE},
                          xml : {XmlTomato, <<ItemTomatoDear>>, XmlShampoo}]}

\* The request that runs the crawl.
CrawlRequest == "r1"

InitCrawl ==
  /\ InitEngine
  /\ arg \in {[fn |-> "crawlShufersal", response |-> response] :
                response \in CrawlListingResponses}
  /\ out = NoOut

\* The fetch the crawl issues on reaching state c: that of filesToProcess[i], if any.
issued(c) == IF c.pc = "download" THEN <<c.filesToProcess[c.i + 1]>> ELSE <<>>

\* The records parseXMLPrices makes of a settled download.
parsedOf(download) ==
  IF download.threw THEN <<>> ELSE parseXMLPrices(download.xmlContent)

\* GET, fetchAllPrices on the empty cache: crawlShufersal starts and fetches the
\* listing page.
StartCrawl ==
  /\ call[CrawlRequest].pc = "idle"
  /\ ~out.ready
  /\ ~cacheFresh(priceCache, lastCrawlTime, now)
  /\ call' = [call EXCEPT ![CrawlRequest] =
                [IdleCall EXCEPT !.pc = "fetchUrls", !.crawled = TRUE]]
  /\ out' = [ready |-> TRUE, requests |-> <<"listing">>, located |-> <<>>,
             collected |-> <<>>]
  /\ UNCHANGED <<priceCache, lastCrawlTime, now, ticks, snapshotItems, arg>>

\* The listing request settles with the response of arg.
ListingSettled ==
  /\ call[CrawlRequest].pc = "fetchUrls"
  /\ CrawlStep(CrawlRequest,
               crawlAfterUrls(call[CrawlRequest], fetchPriceFileUrls(arg.response)))
  /\ out' = [out EXCEPT !.located = <<fetchPriceFileUrls(arg.response)>>,
                        !.requests = @ \o issued(call'[CrawlRequest])]
  /\ UNCHANGED <<now, ticks, arg>>

\* The download of filesToProcess[i] settles.
FileSettled ==
  /\ call[CrawlRequest].pc = "download"
  /\ \E download \in CrawlDownloadResults :
       /\ CrawlStep(CrawlRequest, crawlAfterDownload(call[CrawlRequest], download))
       /\ out' = [out EXCEPT !.collected = @ \o parsedOf(download),
                             !.requests = @ \o issued(call'[CrawlRequest])]
  /\ UNCHANGED <<now, ticks, arg>>

NextCrawl ==
  \/ StartCrawl
  \/ ListingSettled
  \/ FileSettled

SpecCrawl == InitCrawl /\ [][NextCrawl]_vars

\* The indexes of the first occurrence of each URL of the listing.
firstOccurrences(matches) ==
  {k \in 1..Len(matches) : \A j \in 1..(k - 1) : matches[j].url # matches[k].url}

\* The first five distinct URLs of the listing, in the order of the page.
firstFive(matches) ==
  [j \in 1..(IF Cardinality(firstOccurrences(matches)) < 5
               THEN Cardinality(firstOccurrences(matches)) ELSE 5) |->
     matches[nthOf(firstOccurrences(matches), j)].url]

\* C30: One crawl issues one listing request, first, and then downloads that are
\* a prefix of the first five distinct URLs of the listing in the order of the
\* page: none twice, none beyond the fifth, the next one only once the one
\* before has settled, and, when the crawl has ended, each of the five once.
SequentialFirstFive ==
  out.ready =>
    /\ out.requests[1] = "listing"
    /\ Len(out.requests) - 1 <= Len(firstFive(arg.response.matches))
    /\ \A j \in 2..Len(out.requests) :
         out.requests[j] = firstFive(arg.response.matches)[j - 1]
    /\ call[CrawlRequest].pc = "download" =>
         Len(out.requests) - 1 = call[CrawlRequest].i + 1
    /\ call[CrawlRequest].pc = "responded" /\ arg.response.ok =>
         Len(out.requests) - 1 = Len(firstFive(arg.response.matches))

\* C30 witness: the page links to more than five files, some twice; the crawl has
\* ended after five downloads, one of which failed and was not tried again.
SequentialFirstFiveWitness ==
  /\ out.ready
  /\ call[CrawlRequest].pc = "responded"
  /\ Cardinality(firstOccurrences(arg.response.matches)) > 5
  /\ Len(arg.response.matches) > Cardinality(firstOccurrences(arg.response.matches))
  /\ Len(out.requests) = 6
  /\ call[CrawlRequest].failed


\* C23 (as claimed; fetchPriceFileUrls and crawlShufersal take the URLs as the
\* page lists them): when the listing links to a file of the full catalog, no
\* file of updates is downloaded.
FullCatalogPreferred ==
  out.ready /\ (\E k \in 1..Len(arg.response.matches) :
                  arg.response.matches[k].url \in FullCatalogUrls) =>
    \A j \in 2..Len(out.requests) : out.requests[j] \in FullCatalogUrls

\* C24 (as claimed; fetchPriceFileUrls throws): when the request of the listing
\* page fails or is answered with a non-2xx status, fetchPriceFileUrls returns
\* the empty array to crawlShufersal and throws nothing.
LocatorFailsSoftly ==
  out.ready /\ ~arg.response.ok =>
    \A k \in 1..Len(out.located) :
      ~out.located[k].threw /\ out.located[k].urls = <<>>

\* C27 (as claimed; highPrices is built and never read): the highPrice of a
\* product served after a successful crawl is at least every price parsed, in any
\* file of the crawl, for one of the product's barcodes.
MaxPriceFeedsHigh ==
  out.ready /\ call[CrawlRequest].pc = "responded" /\ call[CrawlRequest].success =>
    \A k \in 1..Len(catalog) :
      \A j \in exactAt(catalog[k], out.collected) :
        call[CrawlRequest].response.products[k].highPrice
          >= RoundToTenth(out.collected[j].itemPrice, 1)

\* The crawl under the scheduling the runtime guarantees: an idle request is
\* started and the listing request settles.  Nothing makes the GET of a data
\* file settle: downloadPriceFile passes fetch no signal and no timeout.
SpecCrawlLive ==
  SpecCrawl /\ WF_vars(StartCrawl) /\ WF_vars(ListingSettled)

\* C25 (as claimed; the crawl awaits a download that never settles for ever):
\* every fetchAllPrices call that has started returns a Product list in the end.
EveryCallReturns ==
  out.ready ~>
    /\ call[CrawlRequest].pc = "responded"
    /\ Len(call[CrawlRequest].response.products) = Len(catalog)

=============================================================================
